---------------------------- MODULE Spec2Model ----------------------------
(***************************************************************************)
(* Model of the agent control tower: the remediation gate of the ops agent *)
(* (agents/ops_agent/server.py) and of the dashboard (app.py), the file    *)
(* risk classifier of the github watcher                                   *)
(* (agents/github_watcher/server.py) and of the dashboard (app.py), the    *)
(* cost ledger of the cost sentinel (agents/cost_sentinel/server.py) and   *)
(* of the dashboard, the tool calls of the cost sentinel on its event      *)
(* loop, and the incident and pull request lookups of the ops agent, the   *)
(* github watcher and the dashboard.                                       *)
(*                                                                         *)
(* Texts are TLA+ strings; Python's str.lower() and the substring test     *)
(* `p in s` are modelled character by character.  Python floats are        *)
(* modelled bit for bit as IEEE 754 binary64 values.                       *)
(***************************************************************************)
EXTENDS Integers, Sequences, FiniteSets, TLC

VARIABLES
    action,       \* the action text handed to the remediation gate
    toolResp,     \* what execute_remediation returned for it (ops agent tool)
    httpResp,     \* what ops_execute_action returned for it (dashboard)
    files,        \* the list of changed filenames handed to the classifier
    watcherResp,  \* what analyze_risk returned for it (github watcher)
    dashResp,     \* what analyze_pr_risk returned for it (dashboard)
    tracker,      \* the global CostTracker of the cost sentinel tool server
    costResp,     \* what the last cost sentinel operation returned
    writers,      \* the calls in progress on the ledger, per caller: the
                  \* position and locals of an add_usage call, or the
                  \* position, request and answer of a call_tool call
    data,         \* the records of incidents.json and mock_data.json
    request,      \* the incident id and the PR number looked up
    lookupResp    \* what the last lookup returned

gateVars   == <<action, toolResp, httpResp>>
riskVars   == <<files, watcherResp, dashResp>>
costVars   == <<tracker, costResp, writers>>
lookupVars == <<data, request, lookupResp>>

vars == <<action, toolResp, httpResp, files, watcherResp, dashResp,
          tracker, costResp, writers, data, request, lookupResp>>

\* a response not yet returned; a returned response r is held as <<r>>
None == << >>

----------------------------------------------------------------------------
(* Bounds of the model.                                                    *)

\* longest action text, in fragments of ActionFragments joined by a blank
MaxFragments == 2
\* longest list of changed files
MaxFiles == 3
\* most tokens the ledger records
MaxTotalTokens == 38000
\* most incidents in incidents.json
MaxIncidents == 1
\* most pull requests in mock_data.json
MaxPullRequests == 1

----------------------------------------------------------------------------
(* Python string primitives.                                               *)

UpperAlphabet == "ABCDEFGHIJKLMNOPQRSTUVWXYZ"
LowerAlphabet == "abcdefghijklmnopqrstuvwxyz"

\* the lower-case letter of every upper-case letter
LowerTable ==
    [ c \in { SubSeq(UpperAlphabet, i, i) : i \in 1..Len(UpperAlphabet) } |->
        LET i == CHOOSE j \in 1..Len(UpperAlphabet) : SubSeq(UpperAlphabet, j, j) = c
        IN  SubSeq(LowerAlphabet, i, i) ]

\* one character of str.lower()
LowerChar(c) == IF c \in DOMAIN LowerTable THEN LowerTable[c] ELSE c

RECURSIVE LowerFrom(_, _)
LowerFrom(s, i) ==
    IF i > Len(s) THEN ""
    ELSE LowerChar(SubSeq(s, i, i)) \o LowerFrom(s, i + 1)

\* str.lower()
Lower(s) == LowerFrom(s, 1)

\* the substring test `p in s`
Contains(s, p) ==
    \E i \in 1..(Len(s) - Len(p) + 1) : SubSeq(s, i, i + Len(p) - 1) = p

----------------------------------------------------------------------------
(* Python float arithmetic: IEEE 754 binary64, round to nearest, ties to   *)
(* even.  A float is [neg, m, e] with value (-1)^neg * m * 2^e, where m is *)
(* a natural number of at most 53 bits held as a little-endian sequence of *)
(* limbs (base 2^15), odd unless the value is zero (then m = << >>, e = 0, *)
(* neg = FALSE).  Overflow, subnormals, infinities and NaN do not occur in *)
(* the range of values of the ledger and are not modelled.                 *)

\* the base of a limb
LimbBase == 32768
\* the bits of a limb
LimbBits == 15
\* the bits of the significand of a binary64
MantBits == 53

\* limb i of a, zero beyond its length
Limb(a, i) == IF i <= Len(a) THEN a[i] ELSE 0

RECURSIVE BTrim(_)
BTrim(a) ==
    IF a = << >> THEN << >>
    ELSE IF a[Len(a)] = 0 THEN BTrim(SubSeq(a, 1, Len(a) - 1))
    ELSE a

RECURSIVE BFromInt(_)
BFromInt(n) ==
    IF n = 0 THEN << >> ELSE <<n % LimbBase>> \o BFromInt(n \div LimbBase)

RECURSIVE BAddFrom(_, _, _, _)
BAddFrom(a, b, i, c) ==
    IF i > Len(a) /\ i > Len(b)
    THEN (IF c = 0 THEN << >> ELSE <<c>>)
    ELSE LET s == Limb(a, i) + Limb(b, i) + c
         IN  <<s % LimbBase>> \o BAddFrom(a, b, i + 1, s \div LimbBase)

BAdd(a, b) == BAddFrom(a, b, 1, 0)

RECURSIVE BSubFrom(_, _, _, _)
BSubFrom(a, b, i, br) ==
    IF i > Len(a) THEN << >>
    ELSE LET d == a[i] - Limb(b, i) - br
         IN  IF d < 0 THEN <<d + LimbBase>> \o BSubFrom(a, b, i + 1, 1)
             ELSE <<d>> \o BSubFrom(a, b, i + 1, 0)

\* a - b for a >= b
BSub(a, b) == BTrim(BSubFrom(a, b, 1, 0))

RECURSIVE BCmpFrom(_, _, _)
BCmpFrom(a, b, i) ==
    IF i = 0 THEN 0
    ELSE IF a[i] < b[i] THEN -1
    ELSE IF a[i] > b[i] THEN 1
    ELSE BCmpFrom(a, b, i - 1)

\* -1, 0, 1 as a < b, a = b, a > b
BCmp(a, b) ==
    IF Len(a) < Len(b) THEN -1
    ELSE IF Len(a) > Len(b) THEN 1
    ELSE BCmpFrom(a, b, Len(a))

RECURSIVE BMulSmallFrom(_, _, _, _)
BMulSmallFrom(a, s, i, c) ==
    IF i > Len(a) THEN (IF c = 0 THEN << >> ELSE <<c>>)
    ELSE LET p == a[i] * s + c
         IN  <<p % LimbBase>> \o BMulSmallFrom(a, s, i + 1, p \div LimbBase)

\* a * s for 0 <= s < LimbBase
BMulSmall(a, s) == IF s = 0 THEN << >> ELSE BMulSmallFrom(a, s, 1, 0)

RECURSIVE BMulFrom(_, _, _)
BMulFrom(a, b, j) ==
    IF j > Len(b) THEN << >>
    ELSE LET rest == BMulFrom(a, b, j + 1)
         IN  BAdd(BMulSmall(a, b[j]), IF rest = << >> THEN << >> ELSE <<0>> \o rest)

BMul(a, b) == BMulFrom(a, b, 1)

\* a * 2^k
BShl(a, k) ==
    IF a = << >> THEN << >>
    ELSE [i \in 1..(k \div LimbBits) |-> 0] \o BMulSmall(a, 2 ^ (k % LimbBits))

RECURSIVE BDivSmallFrom(_, _, _, _)
BDivSmallFrom(a, s, i, r) ==
    IF i = 0 THEN << >>
    ELSE LET x == r * LimbBase + a[i]
         IN  BDivSmallFrom(a, s, i - 1, x % s) \o <<x \div s>>

\* a \div 2^k
BShr(a, k) ==
    LET dropped == IF k \div LimbBits >= Len(a) THEN << >>
                   ELSE SubSeq(a, k \div LimbBits + 1, Len(a))
    IN  BTrim(BDivSmallFrom(dropped, 2 ^ (k % LimbBits), Len(dropped), 0))

RECURSIVE IntBitLen(_)
IntBitLen(n) == IF n = 0 THEN 0 ELSE 1 + IntBitLen(n \div 2)

\* the number of bits of a
BitLen(a) ==
    IF a = << >> THEN 0 ELSE LimbBits * (Len(a) - 1) + IntBitLen(a[Len(a)])

\* the digit q with q * d <= rem < (q + 1) * d, from the estimate qh >= q
RECURSIVE BDivCorrect(_, _, _)
BDivCorrect(rem, d, qh) ==
    IF BCmp(BMulSmall(d, qh), rem) > 0 THEN BDivCorrect(rem, d, qh - 1) ELSE qh

\* the quotient digit of rem by d, for rem < d * LimbBase and the top limb of
\* d at least LimbBase \div 2: the two top limbs of rem by the top limb of d
\* overestimate it by two at most
BDivDigit(rem, d) ==
    IF BCmp(rem, d) < 0 THEN 0
    ELSE LET top2 == Limb(rem, Len(d) + 1) * LimbBase + Limb(rem, Len(d))
             est  == top2 \div d[Len(d)]
         IN  BDivCorrect(rem, d, IF est >= LimbBase THEN LimbBase - 1 ELSE est)

\* the quotient and the remainder of the limbs i.. of n by d, limb by limb
RECURSIVE BDivModFrom(_, _, _)
BDivModFrom(n, d, i) ==
    IF i > Len(n) THEN [q |-> << >>, r |-> << >>]
    ELSE LET prev == BDivModFrom(n, d, i + 1)
             rem  == BTrim(<<n[i]>> \o prev.r)
             qd   == BDivDigit(rem, d)
         IN  [q |-> <<qd>> \o prev.q, r |-> BSub(rem, BMulSmall(d, qd))]

\* the quotient and the remainder of n by d # 0, both scaled first so that
\* the top limb of d is at least LimbBase \div 2
BDivMod(n, d) ==
    LET s == LimbBits - IntBitLen(d[Len(d)])
    IN  [BDivModFrom(BShl(n, s), BShl(d, s), 1) EXCEPT !.q = BTrim(@),
                                                       !.r = BShr(@, s)]

FZero == [neg |-> FALSE, m |-> << >>, e |-> 0]

\* the number of trailing zero bits of n # 0
RECURSIVE TrailingZeros(_)
TrailingZeros(n) == IF n % 2 = 1 THEN 0 ELSE 1 + TrailingZeros(n \div 2)

\* the canonical form of (-1)^neg * m * 2^e: m odd
RECURSIVE FCanon(_, _, _)
FCanon(neg, m, e) ==
    IF m = << >> THEN FZero
    ELSE IF m[1] = 0 THEN FCanon(neg, SubSeq(m, 2, Len(m)), e + LimbBits)
    ELSE IF m[1] % 2 = 0
    THEN [neg |-> neg, m |-> BShr(m, TrailingZeros(m[1])), e |-> e + TrailingZeros(m[1])]
    ELSE [neg |-> neg, m |-> m, e |-> e]

\* the binary64 of (-1)^neg * q * 2^e or of the next significand up: up when
\* what was cut off q compares c = 1 with the half, or c = 0 and the tie
\* goes up (more was cut off before, or q is odd)
FRoundUp(neg, q, e, c, sticky) ==
    FCanon(neg,
           IF c > 0 \/ (c = 0 /\ (sticky \/ q[1] % 2 = 1)) THEN BAdd(q, <<1>>) ELSE q,
           e)

\* the same for m of k > 0 bits too many: q is m \div 2^k, and what m leaves
\* behind is compared with the half of 2^k
FRoundTo(neg, m, e, sticky, k, q) ==
    FRoundUp(neg, q, e + k, BCmp(BSub(m, BShl(q, k)), BShl(<<1>>, k - 1)), sticky)

\* the binary64 nearest to (-1)^neg * (m + f) * 2^e, where 0 <= f < 1 and
\* sticky tells whether f > 0; ties go to the even significand
FRound(neg, m, e, sticky) ==
    IF BitLen(m) <= MantBits THEN FCanon(neg, m, e)
    ELSE FRoundTo(neg, m, e, sticky, BitLen(m) - MantBits,
                  BShr(m, BitLen(m) - MantBits))

\* float(n) of an int below 2^31 in size
FFromInt(n) ==
    IF n < 0 THEN FCanon(TRUE, BFromInt(-n), 0) ELSE FCanon(FALSE, BFromInt(n), 0)

FNeg(a) == IF a.m = << >> THEN a ELSE [a EXCEPT !.neg = ~a.neg]

\* a * b
FMul(a, b) ==
    IF a.m = << >> \/ b.m = << >> THEN FZero
    ELSE FRound(a.neg # b.neg, BMul(a.m, b.m), a.e + b.e, FALSE)

\* the binary64 nearest to (-1)^neg * (qr.q + f) * 2^e, where f > 0 exactly
\* when the division left a remainder qr.r
FDivRound(neg, qr, e) == FRound(neg, qr.q, e, qr.r # << >>)

\* a / b for b # 0
FDiv(a, b) ==
    IF a.m = << >> THEN FZero
    ELSE LET want  == MantBits + 2 + BitLen(b.m) - BitLen(a.m)
             shift == IF want > 0 THEN want ELSE 0
         IN  FDivRound(a.neg # b.neg, BDivMod(BShl(a.m, shift), b.m),
                       a.e - b.e - shift)

\* -1, 0, 1 as |a| < |b|, |a| = |b|, |a| > |b|
FCmpAbs(a, b) ==
    LET e == IF a.e < b.e THEN a.e ELSE b.e
    IN  BCmp(BShl(a.m, a.e - e), BShl(b.m, b.e - e))

\* (-1)^aneg * am * 2^e + (-1)^bneg * bm * 2^e
FAddAligned(aneg, am, bneg, bm, e) ==
    FRound(IF aneg = bneg \/ BCmp(am, bm) >= 0 THEN aneg ELSE bneg,
           IF aneg = bneg THEN BAdd(am, bm)
           ELSE IF BCmp(am, bm) >= 0 THEN BSub(am, bm)
           ELSE BSub(bm, am),
           e, FALSE)

\* a + b
FAdd(a, b) ==
    LET e == IF a.e < b.e THEN a.e ELSE b.e
    IN  IF a.m = << >> THEN b
        ELSE IF b.m = << >> THEN a
        ELSE FAddAligned(a.neg, BShl(a.m, a.e - e), b.neg, BShl(b.m, b.e - e), e)

\* a - b
FSub(a, b) == FAdd(a, FNeg(b))

\* -1, 0, 1 as a < b, a == b, a > b
FCmp(a, b) ==
    IF a.neg /\ ~b.neg THEN -1
    ELSE IF ~a.neg /\ b.neg THEN 1
    ELSE IF a.neg THEN FCmpAbs(b, a)
    ELSE FCmpAbs(a, b)

\* a > b
FGt(a, b) == FCmp(a, b) > 0

\* the float a decimal literal num / den denotes (den a power of ten)
FLit(num, den) == FDiv(FFromInt(num), FFromInt(den))

\* the floats 100.0 and 1000.0
F100 == FFromInt(100)
F1000 == FFromInt(1000)

----------------------------------------------------------------------------
(* The cost ledger of the cost sentinel tool server.  A tracker is the     *)
(* CostTracker object: [total_tokens, total_cost, budget_limit,            *)
(* model_pricing, usage_by_model]; a dict is a function on its keys.       *)

\* CostTracker.model_pricing: the price per 1000 tokens
model_pricing ==
    [m \in {"gpt-4", "gpt-4-turbo", "gpt-3.5-turbo", "gpt-4o", "gpt-4o-mini",
            "claude-3-opus", "claude-3-sonnet", "claude-3-haiku"} |->
        CASE m = "gpt-4"           -> FLit(3, 100)
          [] m = "gpt-4-turbo"     -> FLit(1, 100)
          [] m = "gpt-3.5-turbo"   -> FLit(15, 10000)
          [] m = "gpt-4o"          -> FLit(25, 10000)
          [] m = "gpt-4o-mini"     -> FLit(15, 100000)
          [] m = "claude-3-opus"   -> FLit(15, 1000)
          [] m = "claude-3-sonnet" -> FLit(3, 1000)
          [] m = "claude-3-haiku"  -> FLit(25, 100000)]

\* add_usage and calculate_savings: the price of a model the table lacks
default_price == FLit(1, 100)
\* calculate_savings: the price of a target model the table lacks
default_to_price == FLit(1, 1000)
\* recommend_model: the price of gpt-4, the baseline of the dashboard
baseline_price == FLit(3, 100)

\* dict.get(key, default)
Get(dict, key, default) == IF key \in DOMAIN dict THEN dict[key] ELSE default

\* dict[key] = value
Put(dict, key, value) ==
    [k \in DOMAIN dict \cup {key} |-> IF k = key THEN value ELSE dict[k]]

\* add_usage with the product taken before the division
add_usage_cost_multiplies_first(tr, model, tokens) ==
    FDiv(FMul(FFromInt(tokens), Get(tr.model_pricing, model, default_price)),
         F1000)

\* add_usage: the cost it charges for the event
add_usage_cost(tr, model, tokens) ==
    FMul(FFromInt(tokens),
         FDiv(Get(tr.model_pricing, model, default_price), F1000))

\* add_usage that also raises the budget by the cost of the event
add_usage_raises_budget(tr, model, tokens) ==
    LET cost  == add_usage_cost(tr, model, tokens)
        entry == Get(tr.usage_by_model, model, [tokens |-> 0, cost |-> FZero])
    IN  [tr EXCEPT !.total_tokens = @ + tokens,
                   !.total_cost = FAdd(@, cost),
                   !.budget_limit = FAdd(@, cost),
                   !.usage_by_model =
                       Put(@, model, [tokens |-> entry.tokens + tokens,
                                      cost   |-> FAdd(entry.cost, cost)])]

\* add_usage: the tracker after the event
add_usage(tr, model, tokens) ==
    LET cost  == add_usage_cost(tr, model, tokens)
        entry == Get(tr.usage_by_model, model, [tokens |-> 0, cost |-> FZero])
    IN  [tr EXCEPT !.total_tokens = @ + tokens,
                   !.total_cost = FAdd(@, cost),
                   !.usage_by_model =
                       Put(@, model, [tokens |-> entry.tokens + tokens,
                                      cost   |-> FAdd(entry.cost, cost)])]

\* _init_demo_data
init_demo_data(tr) ==
    add_usage(add_usage(add_usage(tr, "gpt-4", 15000), "gpt-3.5-turbo", 5000),
              "gpt-4o-mini", 8000)

\* CostTracker(): the tracker after construction
CostTracker ==
    init_demo_data([total_tokens   |-> 0,
                    total_cost     |-> FZero,
                    budget_limit   |-> F100,
                    model_pricing  |-> model_pricing,
                    usage_by_model |-> [k \in {} |-> None]])

\* min(100, x) and max(0, x) of Python: the first argument wins a tie
Min100(x) == IF FCmp(x, F100) < 0 THEN x ELSE F100
Max0(x) == IF FGt(x, FZero) THEN x ELSE FZero

\* get_budget_status that alerts above 90% only
get_budget_status_alert_above_90(tr) ==
    LET remaining  == FSub(tr.budget_limit, tr.total_cost)
        percentage == FMul(FDiv(tr.total_cost, tr.budget_limit), F100)
    IN  [spent      |-> tr.total_cost,
         remaining  |-> Max0(remaining),
         percentage |-> Min100(percentage),
         alert      |-> FGt(percentage, FFromInt(90)),
         critical   |-> FGt(percentage, FFromInt(95))]

\* get_budget_status
get_budget_status(tr) ==
    LET remaining  == FSub(tr.budget_limit, tr.total_cost)
        percentage == FMul(FDiv(tr.total_cost, tr.budget_limit), F100)
    IN  [spent      |-> tr.total_cost,
         remaining  |-> Max0(remaining),
         percentage |-> Min100(percentage),
         alert      |-> FGt(percentage, FFromInt(80)),
         critical   |-> FGt(percentage, FFromInt(95))]

\* calculate_savings with the percentage taken of the cost after the switch
calculate_savings_of_to_cost(tr, from_model, to_model, tokens) ==
    LET from_price == FDiv(Get(tr.model_pricing, from_model, default_price), F1000)
        to_price   == FDiv(Get(tr.model_pricing, to_model, default_to_price), F1000)
        from_cost  == FMul(FFromInt(tokens), from_price)
        to_cost    == FMul(FFromInt(tokens), to_price)
        savings    == FSub(from_cost, to_cost)
    IN  [from_cost |-> from_cost,
         to_cost   |-> to_cost,
         savings   |-> savings,
         savings_percentage |->
             IF FGt(to_cost, FZero)
             THEN FMul(FDiv(savings, to_cost), F100)
             ELSE FZero]

\* calculate_savings with one default price for both models
calculate_savings_one_default(tr, from_model, to_model, tokens) ==
    LET from_price == FDiv(Get(tr.model_pricing, from_model, default_price), F1000)
        to_price   == FDiv(Get(tr.model_pricing, to_model, default_price), F1000)
        from_cost  == FMul(FFromInt(tokens), from_price)
        to_cost    == FMul(FFromInt(tokens), to_price)
        savings    == FSub(from_cost, to_cost)
    IN  [from_cost |-> from_cost,
         to_cost   |-> to_cost,
         savings   |-> savings,
         savings_percentage |->
             IF FGt(from_cost, FZero)
             THEN FMul(FDiv(savings, from_cost), F100)
             ELSE FZero]

\* calculate_savings
calculate_savings(tr, from_model, to_model, tokens) ==
    LET from_price == FDiv(Get(tr.model_pricing, from_model, default_price), F1000)
        to_price   == FDiv(Get(tr.model_pricing, to_model, default_to_price), F1000)
        from_cost  == FMul(FFromInt(tokens), from_price)
        to_cost    == FMul(FFromInt(tokens), to_price)
        savings    == FSub(from_cost, to_cost)
    IN  [from_cost |-> from_cost,
         to_cost   |-> to_cost,
         savings   |-> savings,
         savings_percentage |->
             IF FGt(from_cost, FZero)
             THEN FMul(FDiv(savings, from_cost), F100)
             ELSE FZero]

\* get_token_usage: the values its report shows
get_token_usage(tr) ==
    LET status == get_budget_status(tr)
    IN  [total_tokens   |-> tr.total_tokens,
         total_cost     |-> tr.total_cost,
         budget         |-> tr.budget_limit,
         remaining      |-> status.remaining,
         percentage     |-> status.percentage,
         banner         |-> IF status.critical THEN "ALERT: Budget threshold exceeded!"
                            ELSE IF status.alert THEN "WARNING: Approaching budget limit"
                            ELSE "Budget healthy",
         usage_by_model |-> tr.usage_by_model,
         recommendation |-> IF status.alert
                            THEN "Consider switching to cheaper models to extend budget"
                            ELSE "Current spending is within acceptable limits"]

\* check_budget_status: the headline of its text and the values it shows
check_budget_status(tr) ==
    LET status == get_budget_status(tr)
    IN  [headline   |-> IF status.critical THEN "CRITICAL BUDGET ALERT!"
                        ELSE IF status.alert THEN "BUDGET WARNING"
                        ELSE "Budget Status: Healthy",
         spent      |-> status.spent,
         budget     |-> tr.budget_limit,
         percentage |-> status.percentage,
         remaining  |-> status.remaining]

\* recommend_model_switch: the recommendations by complexity
switch_recommendations ==
    [c \in {"simple", "medium", "complex"} |->
        CASE c = "simple"  -> [model  |-> "gpt-4o-mini",
                               reason |-> "Simple queries don't need expensive models"]
          [] c = "medium"  -> [model  |-> "gpt-3.5-turbo",
                               reason |-> "Good balance of performance and cost"]
          [] c = "complex" -> [model  |-> "gpt-4",
                               reason |-> "Complex reasoning requires most capable model"]]

\* recommend_model_switch: the tokens of a typical conversation
sample_tokens == 10000

\* recommend_model_switch that maps every tier to the cheapest model
recommend_model_switch_always_mini(tr, query_complexity, current_model) ==
    LET savings == calculate_savings(tr, current_model, "gpt-4o-mini", sample_tokens)
    IN  [query_complexity   |-> query_complexity,
         current_model      |-> current_model,
         recommended_model  |-> "gpt-4o-mini",
         reason             |-> switch_recommendations["simple"].reason,
         from_cost          |-> savings.from_cost,
         to_cost            |-> savings.to_cost,
         savings            |-> savings.savings,
         savings_percentage |-> savings.savings_percentage,
         advice             |-> IF "gpt-4o-mini" # current_model
                                THEN "Switch" ELSE "You're already using the optimal model"]

\* recommend_model_switch: the values its text shows
recommend_model_switch(tr, query_complexity, current_model) ==
    LET complexity == Lower(query_complexity)
        rec        == Get(switch_recommendations, complexity,
                          switch_recommendations["medium"])
        savings    == calculate_savings(tr, current_model, rec.model, sample_tokens)
    IN  [query_complexity   |-> query_complexity,
         current_model      |-> current_model,
         recommended_model  |-> rec.model,
         reason             |-> rec.reason,
         from_cost          |-> savings.from_cost,
         to_cost            |-> savings.to_cost,
         savings            |-> savings.savings,
         savings_percentage |-> savings.savings_percentage,
         advice             |-> IF rec.model # current_model
                                THEN "Switch" ELSE "You're already using the optimal model"]

\* simulate_usage: the values its text shows, read off the tracker
simulate_usage_report(tr, model, tokens) ==
    [model        |-> model,
     tokens       |-> tokens,
     total_tokens |-> tr.total_tokens,
     total_cost   |-> tr.total_cost,
     budget_used  |-> get_budget_status(tr).percentage]

\* simulate_usage: the tracker after it and the values its text shows
simulate_usage(tr, model, tokens) ==
    [tracker |-> add_usage(tr, model, tokens),
     result  |-> simulate_usage_report(add_usage(tr, model, tokens), model, tokens)]

----------------------------------------------------------------------------
(* The cost sentinel of the dashboard.                                     *)

\* CostTracker() of the dashboard: the ledger __init__ writes down
dashboard_CostTracker ==
    [usage_by_model |->
         [m \in {"gpt-4", "gpt-3.5-turbo", "gpt-4o-mini"} |->
             CASE m = "gpt-4"         -> [tokens |-> 15000, cost |-> FLit(45, 100)]
               [] m = "gpt-3.5-turbo" -> [tokens |-> 5000,  cost |-> FLit(75, 10000)]
               [] m = "gpt-4o-mini"   -> [tokens |-> 8000,  cost |-> FLit(12, 10000)]],
     total_tokens |-> 28000,
     total_cost   |-> FLit(4587, 10000),
     budget_limit |-> F100]

\* CostTracker.recommend_model: the recommendations by complexity
dashboard_recommendations ==
    [c \in {"simple", "medium", "complex"} |->
        CASE c = "simple"  -> [model |-> "gpt-4o-mini",   price |-> FLit(15, 100000)]
          [] c = "medium"  -> [model |-> "gpt-3.5-turbo", price |-> FLit(15, 10000)]
          [] c = "complex" -> [model |-> "gpt-4",         price |-> FLit(3, 100)]]

\* CostTracker.recommend_model of the dashboard
recommend_model(complexity) ==
    LET rec              == Get(dashboard_recommendations, complexity,
                                dashboard_recommendations["medium"])
        current_cost     == FDiv(FMul(FFromInt(10000), baseline_price), F1000)
        recommended_cost == FDiv(FMul(FFromInt(10000), rec.price), F1000)
        savings          == FSub(current_cost, recommended_cost)
    IN  [complexity         |-> complexity,
         recommended_model  |-> rec.model,
         current_cost       |-> current_cost,
         recommended_cost   |-> recommended_cost,
         savings            |-> savings,
         savings_percentage |->
             IF FGt(current_cost, FZero)
             THEN FMul(FDiv(savings, current_cost), F100)
             ELSE FZero]

----------------------------------------------------------------------------
(* Inputs of the cost sentinel.                                            *)

\* the models usage is recorded for: one of the price table, one unknown
UsageModels == {"gpt-4", "llama-3"}
\* the token counts of a call
TokenCounts == {0, 9000, 10000}
\* the complexity values of a call
Complexities == {"simple", "medium", "complex", "SIMPLE", "expert", ""}
\* the current models of a call
CurrentModels == {"gpt-4", "gpt-3.5-turbo", "gpt-4o-mini", "llama-3"}
\* the models a switch is priced to
TargetModels == {"gpt-4o-mini", "mistral-7b"}

----------------------------------------------------------------------------
(* The remediation gate of the ops agent tool server.                      *)

\* execute_remediation that blocks every action on a database
execute_remediation_blocks_database(a) ==
    IF Contains(Lower(a), "database")
    THEN "ACTION BLOCKED: Destructive database operations"
    ELSE "Manual Action Required"

\* execute_remediation: the headline of the text it returns
execute_remediation(a) ==
    LET action_lower == Lower(a) IN
    IF Contains(action_lower, "restart") /\ Contains(action_lower, "service")
    THEN "Action Executed"
    ELSE IF Contains(action_lower, "increase")
              /\ (Contains(action_lower, "pool") \/ Contains(action_lower, "limit"))
    THEN "Configuration Updated"
    ELSE IF Contains(action_lower, "enable") \/ Contains(action_lower, "set up")
    THEN "Monitoring Enabled"
    ELSE IF Contains(action_lower, "clear") /\ Contains(action_lower, "cache")
    THEN "Cache Cleared"
    ELSE IF Contains(action_lower, "check") \/ Contains(action_lower, "verify")
    THEN "Check Initiated"
    ELSE IF Contains(action_lower, "delete")
              /\ (Contains(action_lower, "prod") \/ Contains(action_lower, "database"))
    THEN "ACTION BLOCKED: Destructive database operations"
    ELSE IF Contains(action_lower, "drop")
    THEN "ACTION BLOCKED: Cannot drop tables or databases"
    ELSE IF Contains(action_lower, "truncate")
    THEN "ACTION BLOCKED: Data truncation is not permitted"
    ELSE "Manual Action Required"

----------------------------------------------------------------------------
(* The remediation gate of the dashboard.                                  *)

\* ops_execute_action: the status and the headline of the message it returns
ops_execute_action(a) ==
    LET action_lower == Lower(a) IN
    IF Contains(action_lower, "delete")
         /\ (Contains(action_lower, "prod") \/ Contains(action_lower, "database"))
    THEN [status |-> "blocked",
          message |-> "BLOCKED: Destructive database operations are not allowed"]
    ELSE IF Contains(action_lower, "drop") \/ Contains(action_lower, "truncate")
    THEN [status |-> "blocked",
          message |-> "BLOCKED: Data deletion/truncation not permitted"]
    ELSE IF Contains(action_lower, "restart")
    THEN [status |-> "success", message |-> "Executed"]
    ELSE IF Contains(action_lower, "increase")
    THEN [status |-> "success", message |-> "Configuration Updated"]
    ELSE [status |-> "manual", message |-> "Manual Action Required"]

----------------------------------------------------------------------------
(* Inputs of the remediation gate: texts of at most MaxFragments fragments *)
(* joined by single blanks.                                                *)

ActionFragments ==
    << "Restart API service", "restart", "service",
       "Delete production database", "DELETE PROD DB", "delete", "database",
       "Drop table users", "truncate",
       "Increase connection pool", "increase", "limit",
       "Enable", "set", "up", "Clear", "cache", "Check", "verify",
       "logs", "and" >>

RECURSIVE JoinFrom(_, _, _)
JoinFrom(ws, i, sep) ==
    IF i > Len(ws) THEN ""
    ELSE IF i = Len(ws) THEN ws[i]
    ELSE ws[i] \o sep \o JoinFrom(ws, i + 1, sep)

ActionTexts ==
    { JoinFrom([k \in DOMAIN ix |-> ActionFragments[ix[k]]], 1, " ") :
        ix \in UNION { [1..m -> DOMAIN ActionFragments] : m \in 0..MaxFragments } }

\* the verdict a caller reads off the text execute_remediation returns
ToolVerdict(text) ==
    IF Contains(text, "ACTION BLOCKED") THEN "blocked"
    ELSE IF Contains(text, "Manual Action Required") THEN "manual-required"
    ELSE "auto-executed"

\* the verdict a caller reads off the status ops_execute_action returns
HttpVerdict(resp) ==
    CASE resp.status = "blocked" -> "blocked"
      [] resp.status = "success" -> "auto-executed"
      [] resp.status = "manual"  -> "manual-required"

\* the outcome an auto-executing rule of the gate announces
ToolOutcome(text) ==
    CASE text = "Action Executed"       -> "service restarted"
      [] text = "Configuration Updated" -> "configuration updated"
      [] text = "Monitoring Enabled"    -> "monitoring enabled"
      [] text = "Cache Cleared"         -> "cache cleared"
      [] text = "Check Initiated"       -> "check initiated"
      [] OTHER                          -> "none"

HttpOutcome(resp) ==
    CASE resp.message = "Executed"              -> "service restarted"
      [] resp.message = "Configuration Updated" -> "configuration updated"
      [] OTHER                                  -> "none"

----------------------------------------------------------------------------
(* The components at rest: what each holds while another one is observed.  *)

\* the writers of the ledger
Writers == {"w1", "w2"}

\* no action text handed to the gate
IdleGate == action = "" /\ toolResp = None /\ httpResp = None
\* no file list handed to the classifier
IdleRisk == files = << >> /\ watcherResp = None /\ dashResp = None
\* the tracker as constructed, no call made
IdleCost ==
    /\ tracker = CostTracker
    /\ costResp = None
    /\ writers = [w \in Writers |-> [pc |-> "idle"]]
\* empty data files, nothing looked up
IdleLookup ==
    /\ data = [incidents |-> [k \in {} |-> None], pull_requests |-> << >>]
    /\ request = [incident_id |-> "", pr_number |-> 0]
    /\ lookupResp = None

----------------------------------------------------------------------------
(* The gate as a state machine: one action text, handled by the tool       *)
(* boundary (call_tool -> execute_remediation) and by the HTTP boundary    *)
(* (api_ops_execute -> ops_execute_action).                                *)

InitGate ==
    /\ action \in ActionTexts
    /\ toolResp = None
    /\ httpResp = None
    /\ IdleRisk
    /\ IdleCost
    /\ IdleLookup

ExecuteRemediation ==
    /\ toolResp = None
    /\ toolResp' = <<execute_remediation(action)>>
    /\ UNCHANGED <<action, httpResp, riskVars, costVars, lookupVars>>

OpsExecuteAction ==
    /\ httpResp = None
    /\ httpResp' = <<ops_execute_action(action)>>
    /\ UNCHANGED <<action, toolResp, riskVars, costVars, lookupVars>>

NextGate == ExecuteRemediation \/ OpsExecuteAction

SpecGate == InitGate /\ [][NextGate]_vars

----------------------------------------------------------------------------
(* The file risk classifier.  A keyword table is the dict risky_patterns   *)
(* in its iteration (insertion) order: pairs <<pattern, description>>.     *)

\* risky_patterns of analyze_risk (github watcher)
watcher_risky_patterns ==
    << <<"config",    "Configuration files">>,
       <<"env",       "Environment variables">>,
       <<"secret",    "Secrets/credentials">>,
       <<"auth",      "Authentication logic">>,
       <<"database",  "Database schema">>,
       <<"migration", "Database migrations">>,
       <<".yaml",     "Config files">>,
       <<".yml",      "Config files">> >>

\* risky_patterns of analyze_pr_risk (dashboard)
dashboard_risky_patterns ==
    << <<"config",    "Configuration files">>,
       <<"env",       "Environment variables">>,
       <<"secret",    "Secrets/credentials">>,
       <<"auth",      "Authentication logic">>,
       <<"database",  "Database schema">>,
       <<"migration", "Database migrations">> >>

\* the inner loop: the descriptions one file appends, in table order
RECURSIVE FileRisks(_, _, _)
FileRisks(table, file_lower, k) ==
    IF k > Len(table) THEN << >>
    ELSE (IF Contains(file_lower, table[k][1]) THEN <<table[k][2]>> ELSE << >>)
            \o FileRisks(table, file_lower, k + 1)

\* the outer loop: detected_risks after the files from index j on
RECURSIVE DetectedRisks(_, _, _)
DetectedRisks(table, fs, j) ==
    IF j > Len(fs) THEN << >>
    ELSE FileRisks(table, Lower(fs[j]), 1) \o DetectedRisks(table, fs, j + 1)

\* set(xs) of a list
ToSet(xs) == { xs[i] : i \in DOMAIN xs }

\* xs[:n] of a list
Prefix(xs, n) == SubSeq(xs, 1, IF Len(xs) < n THEN Len(xs) ELSE n)

\* mutant of analyze_risk: the matches are counted without deduplication
analyze_risk_counts_duplicates(fs) ==
    LET detected_risks == DetectedRisks(watcher_risky_patterns, fs, 1)
        risk_count     == Len(detected_risks)
    IN  IF risk_count > 3
        THEN [level |-> "HIGH", lead |-> "Multiple sensitive areas",
              labels |-> ToSet(Prefix(detected_risks, 3))]
        ELSE IF risk_count > 0
        THEN [level |-> "MEDIUM", lead |-> "Touches",
              labels |-> ToSet(detected_risks)]
        ELSE [level |-> "LOW", lead |-> "Standard code changes", labels |-> {}]

\* mutant of analyze_risk: the MEDIUM branch tested with >= 0
analyze_risk_medium_at_zero(fs) ==
    LET detected_risks == DetectedRisks(watcher_risky_patterns, fs, 1)
        risk_count     == Cardinality(ToSet(detected_risks))
    IN  IF risk_count > 3
        THEN [level |-> "HIGH", lead |-> "Multiple sensitive areas",
              labels |-> ToSet(Prefix(detected_risks, 3))]
        ELSE IF risk_count >= 0
        THEN [level |-> "MEDIUM", lead |-> "Touches",
              labels |-> ToSet(detected_risks)]
        ELSE [level |-> "LOW", lead |-> "Standard code changes", labels |-> {}]

\* analyze_risk of the github watcher: the tier, and the description as its
\* lead text and the set of labels it joins
analyze_risk(fs) ==
    LET detected_risks == DetectedRisks(watcher_risky_patterns, fs, 1)
        risk_count     == Cardinality(ToSet(detected_risks))
    IN  IF risk_count > 3
        THEN [level |-> "HIGH", lead |-> "Multiple sensitive areas",
              labels |-> ToSet(Prefix(detected_risks, 3))]
        ELSE IF risk_count > 0
        THEN [level |-> "MEDIUM", lead |-> "Touches",
              labels |-> ToSet(detected_risks)]
        ELSE [level |-> "LOW", lead |-> "Standard code changes", labels |-> {}]

\* mutant of analyze_pr_risk: the HIGH branch tested with >= 3
analyze_pr_risk_high_at_three(fs) ==
    LET detected_risks == DetectedRisks(dashboard_risky_patterns, fs, 1)
        risk_count     == Cardinality(ToSet(detected_risks))
    IN  IF risk_count >= 3
        THEN [level |-> "HIGH", lead |-> "Multiple sensitive areas",
              labels |-> ToSet(Prefix(detected_risks, 3))]
        ELSE IF risk_count > 0
        THEN [level |-> "MEDIUM", lead |-> "Touches",
              labels |-> ToSet(detected_risks)]
        ELSE [level |-> "LOW", lead |-> "Standard code changes", labels |-> {}]

\* analyze_pr_risk of the dashboard
analyze_pr_risk(fs) ==
    LET detected_risks == DetectedRisks(dashboard_risky_patterns, fs, 1)
        risk_count     == Cardinality(ToSet(detected_risks))
    IN  IF risk_count > 3
        THEN [level |-> "HIGH", lead |-> "Multiple sensitive areas",
              labels |-> ToSet(Prefix(detected_risks, 3))]
        ELSE IF risk_count > 0
        THEN [level |-> "MEDIUM", lead |-> "Touches",
              labels |-> ToSet(detected_risks)]
        ELSE [level |-> "LOW", lead |-> "Standard code changes", labels |-> {}]

\* the filenames the file lists are drawn from
FileNames ==
    { "config/prod.yaml", "auth/login.py", "db/migration_01.sql", "readme.md",
      "src/main.py", ".env", "secrets/Database.YML", "AUTH/Config.py",
      "config/settings.yml", "docs/Environment.md" }

FileLists == UNION { [1..m -> FileNames] : m \in 0..MaxFiles }

----------------------------------------------------------------------------
(* The classifier as a state machine: one file list, classified by the     *)
(* github watcher (summarize_pr -> analyze_risk) and by the dashboard      *)
(* (github_summarize_pr -> analyze_pr_risk).                               *)

InitRisk ==
    /\ files \in FileLists
    /\ watcherResp = None
    /\ dashResp = None
    /\ IdleGate
    /\ IdleCost
    /\ IdleLookup

AnalyzeRisk ==
    /\ watcherResp = None
    /\ watcherResp' = <<analyze_risk(files)>>
    /\ UNCHANGED <<files, dashResp, gateVars, costVars, lookupVars>>

AnalyzePrRisk ==
    /\ dashResp = None
    /\ dashResp' = <<analyze_pr_risk(files)>>
    /\ UNCHANGED <<files, watcherResp, gateVars, costVars, lookupVars>>

NextRisk == AnalyzeRisk \/ AnalyzePrRisk

SpecRisk == InitRisk /\ [][NextRisk]_vars

----------------------------------------------------------------------------
(* The cost sentinel as a state machine: the global tracker, and the calls *)
(* of the tool server (call_tool -> get_token_usage, check_budget_status,  *)
(* recommend_model_switch, simulate_usage), of the tracker's methods and   *)
(* of the dashboard (api_cost_recommend -> recommend_model).  costResp     *)
(* holds the operation, its arguments and what it returned.                *)

InitCost ==
    /\ IdleCost
    /\ IdleGate
    /\ IdleRisk
    /\ IdleLookup

SimulateUsage ==
    \E model \in UsageModels, tokens \in TokenCounts :
        /\ tracker.total_tokens + tokens <= MaxTotalTokens
        /\ LET r == simulate_usage(tracker, model, tokens)
           IN  /\ tracker' = r.tracker
               /\ costResp' = <<[op     |-> "simulate_usage",
                                 args   |-> <<model, tokens>>,
                                 result |-> r.result]>>
        /\ UNCHANGED <<writers, gateVars, riskVars, lookupVars>>

GetTokenUsage ==
    /\ costResp' = <<[op     |-> "get_token_usage",
                      args   |-> << >>,
                      result |-> get_token_usage(tracker)]>>
    /\ UNCHANGED <<tracker, writers, gateVars, riskVars, lookupVars>>

CheckBudgetStatus ==
    /\ costResp' = <<[op     |-> "check_budget_status",
                      args   |-> << >>,
                      result |-> check_budget_status(tracker)]>>
    /\ UNCHANGED <<tracker, writers, gateVars, riskVars, lookupVars>>

GetBudgetStatus ==
    /\ costResp' = <<[op     |-> "get_budget_status",
                      args   |-> << >>,
                      result |-> get_budget_status(tracker)]>>
    /\ UNCHANGED <<tracker, writers, gateVars, riskVars, lookupVars>>

CalculateSavings ==
    \E from_model \in CurrentModels, to_model \in TargetModels, tokens \in TokenCounts :
        /\ costResp' = <<[op     |-> "calculate_savings",
                          args   |-> <<from_model, to_model, tokens>>,
                          result |-> calculate_savings(tracker, from_model, to_model, tokens)]>>
        /\ UNCHANGED <<tracker, writers, gateVars, riskVars, lookupVars>>

RecommendModelSwitch ==
    \E query_complexity \in Complexities, current_model \in CurrentModels :
        /\ costResp' = <<[op     |-> "recommend_model_switch",
                          args   |-> <<query_complexity, current_model>>,
                          result |-> recommend_model_switch(tracker, query_complexity,
                                                            current_model)]>>
        /\ UNCHANGED <<tracker, writers, gateVars, riskVars, lookupVars>>

RecommendModel ==
    \E complexity \in Complexities :
        /\ costResp' = <<[op     |-> "recommend_model",
                          args   |-> <<complexity>>,
                          result |-> recommend_model(complexity)]>>
        /\ UNCHANGED <<tracker, writers, gateVars, riskVars, lookupVars>>

NextCost ==
    \/ SimulateUsage
    \/ GetTokenUsage
    \/ CheckBudgetStatus
    \/ GetBudgetStatus
    \/ CalculateSavings
    \/ RecommendModelSwitch
    \/ RecommendModel

SpecCost == InitCost /\ [][NextCost]_vars

----------------------------------------------------------------------------
(* Two add_usage calls on the global tracker with no lock between them.    *)
(* `x += d` is a load of x, an addition and a store of the sum; a writer   *)
(* holds what it loaded in loaded_tokens / loaded_cost between the two.    *)
(* Per-model entries are addressed by their key.                           *)

\* the events the writers record
RaceTokens == TokenCounts \ {0}

InitRace ==
    /\ tracker = CostTracker
    /\ costResp = None
    /\ writers \in [Writers -> { [pc            |-> "compute_cost",
                                  model         |-> m,
                                  tokens        |-> t,
                                  cost          |-> FZero,
                                  loaded_tokens |-> 0,
                                  loaded_cost   |-> FZero,
                                  missing       |-> FALSE] :
                                 m \in UsageModels, t \in RaceTokens }]
    /\ IdleGate
    /\ IdleRisk
    /\ IdleLookup

\* writer w moves on: its record becomes r
Step(w, r) ==
    /\ writers' = [writers EXCEPT ![w] = r]
    /\ UNCHANGED <<costResp, gateVars, riskVars, lookupVars>>

\* cost_per_token = ...; cost = tokens * cost_per_token
ComputeCost(w) ==
    /\ writers[w].pc = "compute_cost"
    /\ Step(w, [writers[w] EXCEPT
                  !.pc = "load_total_tokens",
                  !.cost = add_usage_cost(tracker, writers[w].model, writers[w].tokens)])
    /\ UNCHANGED tracker

\* self.total_tokens += tokens, the load
LoadTotalTokens(w) ==
    /\ writers[w].pc = "load_total_tokens"
    /\ Step(w, [writers[w] EXCEPT !.pc = "store_total_tokens",
                                  !.loaded_tokens = tracker.total_tokens])
    /\ UNCHANGED tracker

\* the store of an addition done under a lock: onto the current value
StoreTotalTokens_locked(w) ==
    /\ writers[w].pc = "store_total_tokens"
    /\ tracker' = [tracker EXCEPT !.total_tokens = @ + writers[w].tokens]
    /\ Step(w, [writers[w] EXCEPT !.pc = "load_total_cost"])

\* self.total_tokens += tokens, the store
StoreTotalTokens(w) ==
    /\ writers[w].pc = "store_total_tokens"
    /\ tracker' = [tracker EXCEPT
                     !.total_tokens = writers[w].loaded_tokens + writers[w].tokens]
    /\ Step(w, [writers[w] EXCEPT !.pc = "load_total_cost"])

\* self.total_cost += cost, the load
LoadTotalCost(w) ==
    /\ writers[w].pc = "load_total_cost"
    /\ Step(w, [writers[w] EXCEPT !.pc = "store_total_cost",
                                  !.loaded_cost = tracker.total_cost])
    /\ UNCHANGED tracker

\* self.total_cost += cost, the store
StoreTotalCost(w) ==
    /\ writers[w].pc = "store_total_cost"
    /\ tracker' = [tracker EXCEPT
                     !.total_cost = FAdd(writers[w].loaded_cost, writers[w].cost)]
    /\ Step(w, [writers[w] EXCEPT !.pc = "check_entry"])

\* if model not in self.usage_by_model
CheckEntry(w) ==
    /\ writers[w].pc = "check_entry"
    /\ Step(w, [writers[w] EXCEPT
                  !.pc = IF writers[w].model \in DOMAIN tracker.usage_by_model
                         THEN "load_entry_tokens" ELSE "create_entry",
                  !.missing = writers[w].model \notin DOMAIN tracker.usage_by_model])
    /\ UNCHANGED tracker

\* self.usage_by_model[model] = {"tokens": 0, "cost": 0.0}
CreateEntry(w) ==
    /\ writers[w].pc = "create_entry"
    /\ tracker' = [tracker EXCEPT
                     !.usage_by_model = Put(@, writers[w].model,
                                            [tokens |-> 0, cost |-> FZero])]
    /\ Step(w, [writers[w] EXCEPT !.pc = "load_entry_tokens"])

\* self.usage_by_model[model]["tokens"] += tokens, the load
LoadEntryTokens(w) ==
    /\ writers[w].pc = "load_entry_tokens"
    /\ Step(w, [writers[w] EXCEPT
                  !.pc = "store_entry_tokens",
                  !.loaded_tokens = tracker.usage_by_model[writers[w].model].tokens])
    /\ UNCHANGED tracker

\* self.usage_by_model[model]["tokens"] += tokens, the store
StoreEntryTokens(w) ==
    /\ writers[w].pc = "store_entry_tokens"
    /\ tracker' = [tracker EXCEPT
                     !.usage_by_model[writers[w].model].tokens =
                         writers[w].loaded_tokens + writers[w].tokens]
    /\ Step(w, [writers[w] EXCEPT !.pc = "load_entry_cost"])

\* self.usage_by_model[model]["cost"] += cost, the load
LoadEntryCost(w) ==
    /\ writers[w].pc = "load_entry_cost"
    /\ Step(w, [writers[w] EXCEPT
                  !.pc = "store_entry_cost",
                  !.loaded_cost = tracker.usage_by_model[writers[w].model].cost])
    /\ UNCHANGED tracker

\* self.usage_by_model[model]["cost"] += cost, the store
StoreEntryCost(w) ==
    /\ writers[w].pc = "store_entry_cost"
    /\ tracker' = [tracker EXCEPT
                     !.usage_by_model[writers[w].model].cost =
                         FAdd(writers[w].loaded_cost, writers[w].cost)]
    /\ Step(w, [writers[w] EXCEPT !.pc = "done"])

NextRace ==
    \E w \in Writers :
        \/ ComputeCost(w)
        \/ LoadTotalTokens(w)
        \/ StoreTotalTokens(w)
        \/ LoadTotalCost(w)
        \/ StoreTotalCost(w)
        \/ CheckEntry(w)
        \/ CreateEntry(w)
        \/ LoadEntryTokens(w)
        \/ StoreEntryTokens(w)
        \/ LoadEntryCost(w)
        \/ StoreEntryCost(w)

SpecRace == InitRace /\ [][NextRace]_vars

----------------------------------------------------------------------------
(* The tool server under concurrent calls.  Each caller sends one          *)
(* call_tool(name, arguments) request; the event loop runs the handler of  *)
(* one request at a time and hands the loop on only where a handler        *)
(* suspends or returns.  The handlers await nothing but each other, so     *)
(* call_tool runs from its dispatch to its return; the one place where     *)
(* the ledger is written and then read, between add_usage and the report   *)
(* of simulate_usage, is a position of its own.                            *)

\* the tools call_tool dispatches to
ToolNames ==
    {"get_token_usage", "check_budget_status", "recommend_model_switch",
     "simulate_usage"}

\* the names of a call: the tools, a method of the tracker, a tool name in
\* another case
CallNames == ToolNames \cup {"get_budget_status", "Simulate_Usage"}

\* the arguments of a call: dicts that hold some of the keys of the tools
CallArguments ==
    { [k \in {} |-> None],
      [model |-> "gpt-4o-mini"],
      [tokens |-> 2700000],
      [model |-> "gpt-4", tokens |-> 3200000],
      [tokens |-> -100000],
      [query_complexity |-> "simple", current_model |-> "gpt-3.5-turbo"] }

\* the event loop runs one handler at a time: while a call is inside
\* simulate_usage, no other call is dispatched
LoopFree_preemptive(w) == TRUE

LoopFree(w) == \A v \in Writers \ {w} : writers[v].pc # "simulate_usage"

InitLoop ==
    /\ IdleCost
    /\ IdleGate
    /\ IdleRisk
    /\ IdleLookup

\* a caller sends its request: the call is scheduled
Request(w) ==
    /\ writers[w].pc = "idle"
    /\ \E name \in CallNames, arguments \in CallArguments :
           writers' = [writers EXCEPT ![w] = [pc        |-> "call_tool",
                                              name      |-> name,
                                              arguments |-> arguments]]
    /\ UNCHANGED <<tracker, costResp, gateVars, riskVars, lookupVars>>

\* call returns result
Return(w, result) ==
    writers' = [writers EXCEPT ![w] = [pc        |-> "returned",
                                       name      |-> writers[w].name,
                                       arguments |-> writers[w].arguments,
                                       result    |-> result]]

\* call_tool: the branch for name, up to the return of a read-only tool, to
\* the add_usage of simulate_usage, or to the ValueError
Dispatch(w, name) ==
    LET arguments == writers[w].arguments
    IN  CASE name = "get_token_usage" ->
               /\ Return(w, get_token_usage(tracker))
               /\ UNCHANGED tracker
          [] name = "check_budget_status" ->
               /\ Return(w, check_budget_status(tracker))
               /\ UNCHANGED tracker
          [] name = "recommend_model_switch" ->
               /\ Return(w, recommend_model_switch(
                                tracker,
                                Get(arguments, "query_complexity", "medium"),
                                Get(arguments, "current_model", "gpt-4")))
               /\ UNCHANGED tracker
          [] name = "simulate_usage" ->
               /\ tracker' = add_usage(tracker,
                                       Get(arguments, "model", "gpt-4"),
                                       Get(arguments, "tokens", 5000))
               /\ writers' = [writers EXCEPT ![w].pc = "simulate_usage"]
          [] OTHER ->
               /\ writers' = [writers EXCEPT ![w] =
                                 [pc        |-> "raised",
                                  name      |-> writers[w].name,
                                  arguments |-> arguments,
                                  error     |-> "ValueError"]]
               /\ UNCHANGED tracker

\* call_tool that compares the name case-insensitively
CallTool_folds_name(w) ==
    /\ writers[w].pc = "call_tool"
    /\ LoopFree(w)
    /\ Dispatch(w, Lower(writers[w].name))
    /\ UNCHANGED <<costResp, gateVars, riskVars, lookupVars>>

\* call_tool, once the loop runs it
CallTool(w) ==
    /\ writers[w].pc = "call_tool"
    /\ LoopFree(w)
    /\ Dispatch(w, writers[w].name)
    /\ UNCHANGED <<costResp, gateVars, riskVars, lookupVars>>

\* simulate_usage after its add_usage: the text read off the tracker, and
\* the return of call_tool
SimulateUsageReport(w) ==
    /\ writers[w].pc = "simulate_usage"
    /\ Return(w, simulate_usage_report(tracker,
                                       Get(writers[w].arguments, "model", "gpt-4"),
                                       Get(writers[w].arguments, "tokens", 5000)))
    /\ UNCHANGED <<tracker, costResp, gateVars, riskVars, lookupVars>>

NextLoop ==
    \E w \in Writers :
        \/ Request(w)
        \/ CallTool(w)
        \/ SimulateUsageReport(w)

SpecLoop == InitLoop /\ [][NextLoop]_vars

----------------------------------------------------------------------------
(* The incident analysis of the ops agent tool server.  An incident is a   *)
(* record of incidents.json, of which the model keeps [symptoms, severity];*)
(* the other fields are copied into the answer unread.  The emoji of the   *)
(* texts are left out and their dashes are written "-".                    *)

\* determine_root_cause
determine_root_cause(incident) ==
    LET symptoms == Lower(incident.symptoms) IN
    IF Contains(symptoms, "timeout")
    THEN "Database connection pool exhaustion - connections not being released properly"
    ELSE IF Contains(symptoms, "corruption") \/ Contains(symptoms, "checksum")
    THEN "Disk I/O errors or hardware failure causing data integrity issues"
    ELSE IF Contains(symptoms, "memory")
    THEN "Memory leak in worker code - objects not garbage collected"
    ELSE IF Contains(symptoms, "cache")
    THEN "Cache invalidation issue or CDN configuration problem"
    ELSE "Unknown - requires manual investigation"

\* suggest_actions
suggest_actions(incident) ==
    LET symptoms == Lower(incident.symptoms)
        actions  ==
            IF Contains(symptoms, "timeout")
            THEN << "Increase database connection pool size to 200",
                    "Restart database connection service",
                    "Check for long-running queries in slow query log" >>
            ELSE IF Contains(symptoms, "corruption")
            THEN << "Run database integrity check (CRITICAL - READ ONLY)",
                    "Restore from last known good backup",
                    "Alert database team for manual intervention" >>
            ELSE IF Contains(symptoms, "memory")
            THEN << "Restart affected worker service",
                    "Enable memory profiling for next 24h",
                    "Review recent code changes in worker" >>
            ELSE IF Contains(symptoms, "cache")
            THEN << "Clear CDN cache",
                    "Verify cache configuration",
                    "Check origin server response headers" >>
            ELSE << "Escalate to on-call engineer" >>
    IN  IF incident.severity \in {"HIGH", "CRITICAL"}
        THEN Append(actions, "Set up real-time alerts for this service")
        ELSE actions

\* analyze_incident: the headline of its text and the values it shows
analyze_incident(d, incident_id) ==
    IF incident_id \notin DOMAIN d.incidents
    THEN [headline |-> "Incident " \o incident_id \o " not found in the system"]
    ELSE LET incident == d.incidents[incident_id]
         IN  [headline            |-> "Incident Analysis",
              id                  |-> incident_id,
              severity            |-> incident.severity,
              symptoms            |-> incident.symptoms,
              root_cause          |-> determine_root_cause(incident),
              recommended_actions |-> suggest_actions(incident)]

----------------------------------------------------------------------------
(* The incident analysis of the dashboard.                                 *)

\* ops_analyze_incident that folds the incident id to lower case first
ops_analyze_incident_folds_id(d, incident_id) ==
    IF Lower(incident_id) \notin DOMAIN d.incidents
    THEN [error |-> "Incident " \o incident_id \o " not found in monitoring system"]
    ELSE [incident_id         |-> incident_id,
          severity            |-> d.incidents[Lower(incident_id)].severity,
          symptoms            |-> d.incidents[Lower(incident_id)].symptoms,
          root_cause          |-> "",
          recommended_actions |-> << >>]

\* ops_analyze_incident
ops_analyze_incident(d, incident_id) ==
    IF incident_id \notin DOMAIN d.incidents
    THEN [error |-> "Incident " \o incident_id \o " not found in monitoring system"]
    ELSE LET incident == d.incidents[incident_id]
             symptoms == Lower(incident.symptoms)
             found    ==
                 IF Contains(symptoms, "timeout")
                 THEN [root_cause |-> "Database connection pool exhaustion - connections not being released properly under high concurrency",
                       actions    |-> << "Increase database connection pool size to 200",
                                         "Restart database connection service",
                                         "Check for long-running queries in slow query log" >>]
                 ELSE IF Contains(symptoms, "corruption")
                 THEN [root_cause |-> "Disk I/O errors or hardware failure causing data integrity issues on primary replica",
                       actions    |-> << "Run database integrity check (CRITICAL - READ ONLY)",
                                         "Restore from last known good backup",
                                         "Alert database team for manual intervention" >>]
                 ELSE IF Contains(symptoms, "memory")
                 THEN [root_cause |-> "Memory leak in worker process - objects not being garbage collected after batch processing",
                       actions    |-> << "Restart affected worker service",
                                         "Enable memory profiling for next 24h",
                                         "Review recent code changes in worker" >>]
                 ELSE [root_cause |-> "CDN origin misconfiguration causing cache bypass - all requests hitting origin directly",
                       actions    |-> << "Verify CDN cache headers on origin responses",
                                         "Purge and rebuild CDN cache rules",
                                         "Monitor cache hit ratio for next 2h" >>]
         IN  [incident_id         |-> incident_id,
              severity            |-> incident.severity,
              symptoms            |-> incident.symptoms,
              root_cause          |-> found.root_cause,
              recommended_actions |-> found.actions]

----------------------------------------------------------------------------
(* The pull request summaries of the github watcher and of the dashboard.  *)
(* A pull request is a record of mock_data.json, of which the model keeps  *)
(* [number, files_changed].                                                *)

\* next((p for p in prs if p['number'] == pr_number), None): the index of
\* the first pull request with the number, 0 for None
RECURSIVE FirstPr(_, _, _)
FirstPr(prs, pr_number, i) ==
    IF i > Len(prs) THEN 0
    ELSE IF prs[i].number = pr_number THEN i
    ELSE FirstPr(prs, pr_number, i + 1)

\* summarize_pr: the headline of its text and the values it shows
summarize_pr(d, pr_number) ==
    LET i == FirstPr(d.pull_requests, pr_number, 1) IN
    IF i = 0
    THEN [headline |-> "PR #" \o ToString(pr_number) \o " not found in repository"]
    ELSE [headline      |-> "PR #" \o ToString(d.pull_requests[i].number),
          files_changed |-> Len(d.pull_requests[i].files_changed),
          risk          |-> analyze_risk(d.pull_requests[i].files_changed)]

\* github_summarize_pr
github_summarize_pr(d, pr_number) ==
    LET i == FirstPr(d.pull_requests, pr_number, 1) IN
    IF i = 0
    THEN [error |-> "PR #" \o ToString(pr_number) \o " not found in connected repository"]
    ELSE [number        |-> d.pull_requests[i].number,
          files_changed |-> d.pull_requests[i].files_changed,
          risk          |-> analyze_pr_risk(d.pull_requests[i].files_changed)]

----------------------------------------------------------------------------
(* Inputs of the lookups: the data files and the request.                  *)

SymptomTexts ==
    { "Connection timeout errors", "Data corruption detected",
      "Checksum mismatch on replica", "High memory usage",
      "Cache miss ratio spike", "Slow page loads",
      "Memory spike then TIMEOUT", "cache corruption" }

Severities == {"CRITICAL", "MEDIUM"}

\* the ids of the incidents on file, and the ids asked for
StoredIncidentIds == {"INC-001", "INC-002"}
IncidentIds == StoredIncidentIds \cup {"INC-404"}

\* the numbers of the pull requests on file, and the numbers asked for
StoredPrNumbers == {42, 44}
PrNumbers == StoredPrNumbers \cup {999}

ChangedFiles == { << "src/app.py" >>, << "auth/login.py", "config/prod.yaml" >> }

\* the contents incidents.json can have
IncidentFiles ==
    UNION { [ids -> [symptoms : SymptomTexts, severity : Severities]] :
            ids \in {s \in SUBSET StoredIncidentIds : Cardinality(s) <= MaxIncidents} }

\* the contents the pull_requests of mock_data.json can have
PullRequestFiles ==
    UNION { [1..n -> [number : StoredPrNumbers, files_changed : ChangedFiles]] :
            n \in 0..MaxPullRequests }

----------------------------------------------------------------------------
(* The lookups as a state machine: the data files and one request, served  *)
(* by the tool boundary (call_tool -> analyze_incident, summarize_pr) and  *)
(* by the HTTP boundary (api_ops_incident -> ops_analyze_incident,         *)
(* api_github_pr -> github_summarize_pr).  lookupResp holds the operation  *)
(* and what it returned.                                                   *)

InitLookup ==
    /\ data \in [incidents : IncidentFiles, pull_requests : PullRequestFiles]
    /\ request \in [incident_id : IncidentIds, pr_number : PrNumbers]
    /\ lookupResp = None
    /\ IdleGate
    /\ IdleRisk
    /\ IdleCost

AnalyzeIncident ==
    /\ lookupResp' = <<[op     |-> "analyze_incident",
                        result |-> analyze_incident(data, request.incident_id)]>>
    /\ UNCHANGED <<data, request, gateVars, riskVars, costVars>>

OpsAnalyzeIncident ==
    /\ lookupResp' = <<[op     |-> "ops_analyze_incident",
                        result |-> ops_analyze_incident(data, request.incident_id)]>>
    /\ UNCHANGED <<data, request, gateVars, riskVars, costVars>>

SummarizePr ==
    /\ lookupResp' = <<[op     |-> "summarize_pr",
                        result |-> summarize_pr(data, request.pr_number)]>>
    /\ UNCHANGED <<data, request, gateVars, riskVars, costVars>>

GithubSummarizePr ==
    /\ lookupResp' = <<[op     |-> "github_summarize_pr",
                        result |-> github_summarize_pr(data, request.pr_number)]>>
    /\ UNCHANGED <<data, request, gateVars, riskVars, costVars>>

NextLookup ==
    \/ AnalyzeIncident
    \/ OpsAnalyzeIncident
    \/ SummarizePr
    \/ GithubSummarizePr

SpecLookup == InitLookup /\ [][NextLookup]_vars

----------------------------------------------------------------------------
(* The rules of the remediation gate as the specification words them       *)
(* (case-insensitive substring rules 1-7, evaluated top to bottom).        *)

HasWord(a, w) == Contains(Lower(a), w)

Rule1(a) == HasWord(a, "delete") /\ (HasWord(a, "prod") \/ HasWord(a, "database"))
Rule2(a) == HasWord(a, "drop") \/ HasWord(a, "truncate")
Rule3(a) == HasWord(a, "restart")
Rule4(a) == HasWord(a, "increase") /\ (HasWord(a, "pool") \/ HasWord(a, "limit"))
Rule5(a) == HasWord(a, "enable") \/ HasWord(a, "set up")
Rule6(a) == HasWord(a, "clear") /\ HasWord(a, "cache")
Rule7(a) == HasWord(a, "check") \/ HasWord(a, "verify")

DenyRule(a)  == Rule1(a) \/ Rule2(a)
AllowRule(a) == Rule3(a) \/ Rule4(a) \/ Rule5(a) \/ Rule6(a) \/ Rule7(a)

\* every boundary that has answered gave the verdict v
GateVerdictIs(v) ==
    /\ toolResp # None => ToolVerdict(toolResp[1]) = v
    /\ httpResp # None => HttpVerdict(httpResp[1]) = v

----------------------------------------------------------------------------
(* Claims about the remediation gate, checked under SpecGate.              *)

\* C1: an action text that matches a deny rule and also an allow rule is
\* blocked by execute_remediation and by ops_execute_action, never
\* auto-executed: the deny rules are evaluated before the allow rules.
C1_DenyBeforeAllow ==
    (DenyRule(action) /\ AllowRule(action)) => GateVerdictIs("blocked")

\* C2: an action text that contains "delete" together with "prod" or
\* "database", in any mix of upper and lower case, is blocked by the gate.
C2_DeleteProdBlocked ==
    Rule1(action) => GateVerdictIs("blocked")

\* C3: an action text that contains "drop" or "truncate" is blocked by the
\* gate, whatever other words it contains: never manual-required, never
\* auto-executed.
C3_DropTruncateBlocked ==
    Rule2(action) =>
        /\ GateVerdictIs("blocked")
        /\ toolResp # None => ToolVerdict(toolResp[1]) \notin {"manual-required", "auto-executed"}
        /\ httpResp # None => HttpVerdict(httpResp[1]) \notin {"manual-required", "auto-executed"}

\* C4: an action text that matches no deny rule and contains "restart" is
\* auto-executed as "service restarted" by the gate, whether or not it also
\* contains "service".
C4_RestartAutoExecuted ==
    (~DenyRule(action) /\ HasWord(action, "restart")) =>
        /\ GateVerdictIs("auto-executed")
        /\ toolResp # None => ToolOutcome(toolResp[1]) = "service restarted"
        /\ httpResp # None => HttpOutcome(httpResp[1]) = "service restarted"

\* C5: the gate announces "configuration updated" only for a text that
\* contains "increase" and ("pool" or "limit"); a text that contains
\* "increase" but neither "pool" nor "limit", and matches no other rule, is
\* manual-required.
C5_IncreaseNeedsPoolOrLimit ==
    /\ (toolResp # None /\ ToolOutcome(toolResp[1]) = "configuration updated")
          => Rule4(action)
    /\ (httpResp # None /\ HttpOutcome(httpResp[1]) = "configuration updated")
          => Rule4(action)
    /\ ( /\ HasWord(action, "increase")
         /\ ~HasWord(action, "pool") /\ ~HasWord(action, "limit")
         /\ ~DenyRule(action) /\ ~Rule3(action) /\ ~Rule5(action)
         /\ ~Rule6(action) /\ ~Rule7(action) )
          => GateVerdictIs("manual-required")

\* C6: an action text that matches no deny rule and no earlier allow rule is
\* auto-executed when it contains "enable" or "set up", or "clear" and
\* "cache", or "check" or "verify"; only a text that matches none of the
\* rules 1-7 is manual-required.
C6_LaterAllowRules ==
    /\ ( /\ ~DenyRule(action) /\ ~Rule3(action) /\ ~Rule4(action)
         /\ (Rule5(action) \/ Rule6(action) \/ Rule7(action)) )
          => GateVerdictIs("auto-executed")
    /\ (toolResp # None /\ ToolVerdict(toolResp[1]) = "manual-required")
          => (~DenyRule(action) /\ ~AllowRule(action))
    /\ (httpResp # None /\ HttpVerdict(httpResp[1]) = "manual-required")
          => (~DenyRule(action) /\ ~AllowRule(action))

\* C7: for every action text, ops_execute_action and execute_remediation
\* return the same verdict among blocked / auto-executed / manual-required.
C7_SameGateAtBothBoundaries ==
    (toolResp # None /\ httpResp # None)
        => ToolVerdict(toolResp[1]) = HttpVerdict(httpResp[1])

----------------------------------------------------------------------------
(* Claims about the file risk classifier, checked under SpecRisk.          *)

\* the distinct category labels of a table that some filename of fs matches
MatchedLabels(table, fs) ==
    LET low == [j \in DOMAIN fs |-> Lower(fs[j])]
    IN  { table[k][2] : k \in { i \in DOMAIN table :
                                  \E j \in DOMAIN fs : Contains(low[j], table[i][1]) } }

\* the tier the specification assigns to a count of distinct labels
TierAgrees(level, n) ==
    /\ level \in {"HIGH", "MEDIUM", "LOW"}
    /\ level = "HIGH" <=> n > 3
    /\ (n > 1 /\ n <= 3) => level = "MEDIUM"
    /\ level = "LOW" <=> n = 0

\* C8: the tier comes from the number of distinct matched category labels:
\* HIGH exactly when it is greater than 3, MEDIUM when it is in (1,3], LOW
\* exactly when it is 0; several files or keywords of one category count once.
C8_TierByDistinctCount ==
    /\ watcherResp # None =>
          TierAgrees(watcherResp[1].level,
                     Cardinality(MatchedLabels(watcher_risky_patterns, files)))
    /\ dashResp # None =>
          TierAgrees(dashResp[1].level,
                     Cardinality(MatchedLabels(dashboard_risky_patterns, files)))

\* C8 witness: both classifiers answered a list in which a category is
\* matched more than once, the watcher with HIGH and the dashboard with MEDIUM.
C8_Witness ==
    /\ watcherResp # None /\ dashResp # None
    /\ watcherResp[1].level = "HIGH"
    /\ dashResp[1].level = "MEDIUM"
    /\ Len(DetectedRisks(watcher_risky_patterns, files, 1))
          > Cardinality(MatchedLabels(watcher_risky_patterns, files))
    /\ Len(DetectedRisks(dashboard_risky_patterns, files, 1))
          > Cardinality(MatchedLabels(dashboard_risky_patterns, files))

\* the file list of the specification's example
ExampleFiles == << "config/prod.yaml", "auth/login.py", "db/migration_01.sql" >>

NoKeyword(table, fs) ==
    LET low == [j \in DOMAIN fs |-> Lower(fs[j])]
    IN  \A j \in DOMAIN fs : \A k \in DOMAIN table : ~Contains(low[j], table[k][1])

\* C10: the classifier always answers with a tier, and it answers LOW for the
\* empty list and for every list in which no filename contains a keyword.
C10_NoKeywordIsLow ==
    /\ watcherResp # None =>
          /\ watcherResp[1].level \in {"HIGH", "MEDIUM", "LOW"}
          /\ NoKeyword(watcher_risky_patterns, files) => watcherResp[1].level = "LOW"
    /\ dashResp # None =>
          /\ dashResp[1].level \in {"HIGH", "MEDIUM", "LOW"}
          /\ NoKeyword(dashboard_risky_patterns, files) => dashResp[1].level = "LOW"

\* C10 witness: both classifiers answered LOW for the list ["readme.md"].
C10_Witness ==
    /\ files = << "readme.md" >>
    /\ watcherResp = << [level |-> "LOW", lead |-> "Standard code changes", labels |-> {}] >>
    /\ dashResp = << [level |-> "LOW", lead |-> "Standard code changes", labels |-> {}] >>

\* every reordering of a file list
Reorderings(fs) ==
    { [i \in DOMAIN fs |-> fs[p[i]]] : p \in Permutations(DOMAIN fs) }

\* the labels of table[k..] that fs matches, in table order, each once
RECURSIVE LabelsInTableOrder(_, _, _, _)
LabelsInTableOrder(table, fs, k, seen) ==
    IF k > Len(table) THEN << >>
    ELSE IF table[k][2] \in MatchedLabels(table, fs) /\ table[k][2] \notin seen
    THEN <<table[k][2]>> \o LabelsInTableOrder(table, fs, k + 1, seen \cup {table[k][2]})
    ELSE LabelsInTableOrder(table, fs, k + 1, seen)

\* C11: in the HIGH case the description shows the first three distinct
\* matched labels in keyword-table order, and reordering the filenames does
\* not change which labels are shown.
C11_DisplayInTableOrder ==
    /\ (watcherResp # None /\ watcherResp[1].level = "HIGH") =>
          /\ watcherResp[1].labels =
                ToSet(Prefix(LabelsInTableOrder(watcher_risky_patterns, files, 1, {}), 3))
          /\ \A g \in Reorderings(files) : analyze_risk(g).labels = watcherResp[1].labels
    /\ (dashResp # None /\ dashResp[1].level = "HIGH") =>
          /\ dashResp[1].labels =
                ToSet(Prefix(LabelsInTableOrder(dashboard_risky_patterns, files, 1, {}), 3))
          /\ \A g \in Reorderings(files) : analyze_pr_risk(g).labels = dashResp[1].labels

----------------------------------------------------------------------------
(* Claims about the cost sentinel, checked under SpecCost.                 *)

\* the step records a usage event of t tokens for model m
RecordsUsage(m, t) ==
    /\ costResp' # None
    /\ costResp'[1].op = "simulate_usage"
    /\ costResp'[1].args = <<m, t>>

\* the per-model entry of m as add_usage finds it: zero when there is none
EntryOf(tr, m) == Get(tr.usage_by_model, m, [tokens |-> 0, cost |-> FZero])

\* the price per 1000 tokens of m: 0.01 for a model the table lacks
PriceOf(tr, m) == Get(tr.model_pricing, m, FLit(1, 100))

\* the ledger charges cost for the usage event of model m at this step
Charges(m, cost) ==
    /\ tracker'.total_cost = FAdd(tracker.total_cost, cost)
    /\ tracker'.usage_by_model[m].cost = FAdd(EntryOf(tracker, m).cost, cost)

\* the cost of add_usage does not decrease up to t tokens
MonotoneUpTo(m, t) ==
    \A u \in TokenCounts :
        u <= t => FCmp(add_usage_cost(tracker, m, u), add_usage_cost(tracker, m, t)) <= 0

\* C12 (as stated): for every model with price p per 1000 tokens and every
\* token count t >= 0, the cost add_usage charges for the event is the float
\* t * p / 1000, and the cost is monotonically non-decreasing in t.
C12_ChargesTokensTimesPriceOver1000 ==
    [][\A m \in UsageModels, t \in TokenCounts :
          RecordsUsage(m, t) =>
              /\ Charges(m, FDiv(FMul(FFromInt(t), PriceOf(tracker, m)), F1000))
              /\ MonotoneUpTo(m, t)]_vars

\* C12 (as the code has it): the cost add_usage charges for an event of t
\* tokens is the float t * (p / 1000), the price per token taken first; it
\* is monotonically non-decreasing in t.
C12_ChargesTokensTimesPricePerToken ==
    [][\A m \in UsageModels, t \in TokenCounts :
          RecordsUsage(m, t) =>
              /\ Charges(m, FMul(FFromInt(t), FDiv(PriceOf(tracker, m), F1000)))
              /\ MonotoneUpTo(m, t)]_vars

\* an event is charged whose two costs differ as floats
C12_Witness ==
    /\ costResp # None
    /\ costResp[1].op = "simulate_usage"
    /\ costResp[1].args = <<"llama-3", 9000>>
    /\ tracker.usage_by_model["llama-3"].cost
         # FDiv(FMul(FFromInt(9000), FLit(1, 100)), F1000)


\* the last operation of the cost sentinel was op
Answered(op) == costResp # None /\ costResp[1].op = op

\* the model of each complexity tier
TierModel ==
    [c \in {"simple", "medium", "complex"} |->
        CASE c = "simple"  -> "gpt-4o-mini"
          [] c = "medium"  -> "gpt-3.5-turbo"
          [] c = "complex" -> "gpt-4"]

C14_SimpleSavingsAgainstGpt4 ==
    \A op \in {"recommend_model_switch", "recommend_model"} :
        (Answered(op) /\ costResp[1].args[1] = "simple") =>
            costResp[1].result.savings_percentage =
                FMul(FDiv(FSub(FLit(3, 100), FLit(15, 100000)), FLit(3, 100)), F100)

\* the ledger fields of a tracker
Ledger(tr) == <<tr.total_tokens, tr.total_cost, tr.usage_by_model>>

\* C15: the ledger (total_tokens, total_cost, usage_by_model) changes only
\* in a step that records a usage event; get_token_usage,
\* check_budget_status, recommend_model_switch, get_budget_status and
\* calculate_savings leave it unchanged; no step changes budget_limit or the
\* price table.
C15_LedgerChangesOnlyByUsage ==
    [][/\ Ledger(tracker') # Ledger(tracker) =>
              (costResp' # None /\ costResp'[1].op = "simulate_usage")
       /\ (costResp' # None
             /\ costResp'[1].op \in {"get_token_usage", "check_budget_status",
                                     "recommend_model_switch", "get_budget_status",
                                     "calculate_savings"}) =>
              Ledger(tracker') = Ledger(tracker)
       /\ tracker'.budget_limit = tracker.budget_limit
       /\ tracker'.model_pricing = tracker.model_pricing]_vars

\* a report was read off a ledger that has recorded a usage event
C15_Witness ==
    /\ Answered("get_token_usage")
    /\ tracker.total_tokens > CostTracker.total_tokens
    /\ tracker.budget_limit = F100


\* C19: add_usage charges a model the price table lacks at 0.01 per 1000
\* tokens and creates its per-model entry on first use; calculate_savings
\* prices an unknown from-model at 0.01 and an unknown to-model at 0.001 per
\* 1000 tokens.
C19_UnknownModelsHaveDefaultPrices ==
    [][/\ \A m \in UsageModels, t \in TokenCounts :
              (RecordsUsage(m, t) /\ m \notin DOMAIN tracker.model_pricing) =>
                  LET cost == FMul(FFromInt(t), FDiv(FLit(1, 100), F1000))
                  IN  /\ tracker'.total_cost = FAdd(tracker.total_cost, cost)
                      /\ m \in DOMAIN tracker'.usage_by_model
                      /\ m \notin DOMAIN tracker.usage_by_model =>
                             tracker'.usage_by_model[m] = [tokens |-> t, cost |-> cost]
       /\ (costResp' # None /\ costResp'[1].op = "calculate_savings") =>
              LET from_model == costResp'[1].args[1]
                  to_model   == costResp'[1].args[2]
                  tokens     == FFromInt(costResp'[1].args[3])
                  savings    == costResp'[1].result
              IN  /\ from_model \notin DOMAIN tracker.model_pricing =>
                         savings.from_cost = FMul(tokens, FDiv(FLit(1, 100), F1000))
                  /\ to_model \notin DOMAIN tracker.model_pricing =>
                         savings.to_cost = FMul(tokens, FDiv(FLit(1, 1000), F1000))]_vars

\* a model the price table lacks was charged and got its entry
C19_Witness ==
    /\ Answered("simulate_usage")
    /\ costResp[1].args = <<"llama-3", 10000>>
    /\ "llama-3" \notin DOMAIN tracker.model_pricing
    /\ tracker.usage_by_model["llama-3"].tokens = 10000

\* (baseline - recommended) / baseline * 100, and 0 for a baseline of 0
SavingsPercentage(baseline, recommended) ==
    IF baseline = FZero THEN FZero
    ELSE FMul(FDiv(FSub(baseline, recommended), baseline), F100)

\* C20: the savings percentage is
\* (baseline_cost - recommended_cost) / baseline_cost * 100, and 0 when the
\* baseline cost is 0, in calculate_savings (also as recommend_model_switch
\* shows it) and in recommend_model.
C20_SavingsPercentage ==
    /\ \A op \in {"calculate_savings", "recommend_model_switch"} :
           Answered(op) =>
               costResp[1].result.savings_percentage =
                   SavingsPercentage(costResp[1].result.from_cost,
                                     costResp[1].result.to_cost)
    /\ Answered("recommend_model") =>
           costResp[1].result.savings_percentage =
               SavingsPercentage(costResp[1].result.current_cost,
                                 costResp[1].result.recommended_cost)

\* calculate_savings was called with no tokens: the baseline cost is 0
C20_Witness ==
    /\ Answered("calculate_savings")
    /\ costResp[1].args[3] = 0
    /\ costResp[1].result.from_cost = FZero
    /\ costResp[1].result.savings_percentage = FZero


----------------------------------------------------------------------------
(* Claims about concurrent writers of the ledger, checked under SpecRace.  *)

\* every writer has returned from add_usage
AllDone == \A w \in Writers : writers[w].pc = "done"

\* the tokens of the events of the writers ws of wr
RECURSIVE TokensOf(_, _)
TokensOf(wr, ws) ==
    IF ws = {} THEN 0
    ELSE LET w == CHOOSE x \in ws : TRUE
         IN  wr[w].tokens + TokensOf(wr, ws \ {w})

\* the totals that adding the costs of the writers ws of wr, in some order,
\* to the cost c can give
RECURSIVE CostSums(_, _, _)
CostSums(wr, c, ws) ==
    IF ws = {} THEN {c}
    ELSE UNION { CostSums(wr, FAdd(c, wr[w].cost), ws \ {w}) : w \in ws }

\* the totals account for the events of some of the writers of wr, one at
\* least
TotalsOfSomeEvents(tr, wr) ==
    /\ tr.total_tokens \in
           { CostTracker.total_tokens + TokensOf(wr, ws) : ws \in SUBSET Writers \ {{}} }
    /\ tr.total_cost \in
           UNION { CostSums(wr, CostTracker.total_cost, ws) : ws \in SUBSET Writers \ {{}} }

\* C16: the accumulate sequence of add_usage is a load, an addition and a
\* store: a store writes what its writer loaded plus the writer's delta,
\* whatever the field holds by then, so once all writers have returned the
\* totals account for at least one and at most all of the events.
C16_StoreWritesLoadedPlusDelta ==
    [][\A w \in Writers :
          /\ (writers[w].pc = "store_total_tokens" /\ writers'[w].pc = "load_total_cost") =>
                 tracker'.total_tokens = writers[w].loaded_tokens + writers[w].tokens
          /\ (writers[w].pc = "store_total_cost" /\ writers'[w].pc = "check_entry") =>
                 tracker'.total_cost = FAdd(writers[w].loaded_cost, writers[w].cost)
          /\ (\A v \in Writers : writers'[v].pc = "done") =>
                 TotalsOfSomeEvents(tracker', writers')]_vars

\* a lost update: both writers have returned and the totals hold the event
\* of one of them only
C16_Witness ==
    /\ AllDone
    /\ tracker.total_tokens < CostTracker.total_tokens + TokensOf(writers, Writers)
    /\ tracker.total_cost \notin CostSums(writers, CostTracker.total_cost, Writers)
    /\ \E w \in Writers :
           /\ tracker.total_tokens = CostTracker.total_tokens + writers[w].tokens
           /\ tracker.total_cost = FAdd(CostTracker.total_cost, writers[w].cost)

----------------------------------------------------------------------------
(* Claims about the lookups, checked under SpecLookup.                     *)

\* the last lookup was op
Looked(op) == lookupResp # None /\ lookupResp[1].op = op

\* the answer of the tool boundary is its not-found text
NotFoundText(result) == Contains(result.headline, "not found")
\* the answer of the HTTP boundary is a dict with an "error" key
NotFoundDict(result) == "error" \in DOMAIN result

\* the first of "timeout", "corruption", "memory", "cache" the symptom text
\* holds, case-insensitively, "unknown" when it holds none
RootCauseKind(symptoms) ==
    IF HasWord(symptoms, "timeout") THEN "timeout"
    ELSE IF HasWord(symptoms, "corruption") THEN "corruption"
    ELSE IF HasWord(symptoms, "memory") THEN "memory"
    ELSE IF HasWord(symptoms, "cache") THEN "cache"
    ELSE "unknown"

\* the kind a root-cause narrative is about
NarrativeKind(root_cause) ==
    IF HasWord(root_cause, "connection pool") THEN "timeout"
    ELSE IF HasWord(root_cause, "disk i/o") THEN "corruption"
    ELSE IF HasWord(root_cause, "memory leak") THEN "memory"
    ELSE IF HasWord(root_cause, "unknown") THEN "unknown"
    ELSE IF HasWord(root_cause, "cache") THEN "cache"
    ELSE "other"

\* the kind an action list is for, read off its first action
ActionsKind(actions) ==
    IF actions = << >> THEN "other"
    ELSE IF HasWord(actions[1], "connection pool") THEN "timeout"
    ELSE IF HasWord(actions[1], "integrity check") THEN "corruption"
    ELSE IF HasWord(actions[1], "worker") THEN "memory"
    ELSE IF HasWord(actions[1], "cache") THEN "cache"
    ELSE IF HasWord(actions[1], "escalate") THEN "unknown"
    ELSE "other"

\* C17: the root-cause lookup selects the narrative and the action list by
\* the first matching substring in the order "timeout", "corruption",
\* "memory", "cache" (case-insensitive) and answers the "unknown" narrative
\* when none matches, in analyze_incident and in ops_analyze_incident.
C17_FirstMatchOfFour ==
    \A op \in {"analyze_incident", "ops_analyze_incident"} :
        (Looked(op) /\ request.incident_id \in DOMAIN data.incidents) =>
            LET kind == RootCauseKind(data.incidents[request.incident_id].symptoms)
            IN  /\ NarrativeKind(lookupResp[1].result.root_cause) = kind
                /\ ActionsKind(lookupResp[1].result.recommended_actions) = kind

\* the pull request numbers on file
NumbersOnFile == { data.pull_requests[i].number : i \in DOMAIN data.pull_requests }

\* C18: a lookup with an incident id or a PR number that matches no record
\* answers NotFound as a value (a dict with an "error" key at the HTTP
\* boundary, a not-found text at the tool boundary); a lookup that matches a
\* record never answers NotFound.
C18_NotFoundIffNoRecord ==
    /\ Looked("analyze_incident") =>
           (NotFoundText(lookupResp[1].result)
              <=> request.incident_id \notin DOMAIN data.incidents)
    /\ Looked("ops_analyze_incident") =>
           (NotFoundDict(lookupResp[1].result)
              <=> request.incident_id \notin DOMAIN data.incidents)
    /\ Looked("summarize_pr") =>
           (NotFoundText(lookupResp[1].result)
              <=> request.pr_number \notin NumbersOnFile)
    /\ Looked("github_summarize_pr") =>
           (NotFoundDict(lookupResp[1].result)
              <=> request.pr_number \notin NumbersOnFile)

\* the HTTP boundary answered NotFound for an id next to a record on file
C18_Witness ==
    /\ Looked("ops_analyze_incident")
    /\ DOMAIN data.incidents # {}
    /\ request.incident_id \notin DOMAIN data.incidents
    /\ NotFoundDict(lookupResp[1].result)


\* the action suggest_actions adds for monitoring
MonitoringAction == "Set up real-time alerts for this service"

\* xs holds x
Lists(xs, x) == \E i \in DOMAIN xs : xs[i] = x

\* C22: suggest_actions adds the monitoring action "Set up real-time alerts
\* for this service" for all incidents, whatever their severity and
\* whichever symptom branch was taken: every analysis of an incident on file
\* lists it.
C22_MonitoringForAllIncidents ==
    (Looked("analyze_incident") /\ ~NotFoundText(lookupResp[1].result)) =>
        Lists(lookupResp[1].result.recommended_actions, MonitoringAction)

\* C26: determine_root_cause and suggest_actions select the same branch for
\* every symptom text, so the recommended actions of an analysis belong to
\* the root cause it reports, also for symptoms with "checksum" and without
\* "corruption".
C26_ActionsBelongToRootCause ==
    (Looked("analyze_incident") /\ ~NotFoundText(lookupResp[1].result)) =>
        ActionsKind(lookupResp[1].result.recommended_actions)
            = NarrativeKind(lookupResp[1].result.root_cause)


\* the last lookup was an incident analysis that found its incident
Analysed(op) ==
    /\ Looked(op)
    /\ request.incident_id \in DOMAIN data.incidents
    /\ "recommended_actions" \in DOMAIN lookupResp[1].result

\* neither gate blocks the action text a
PassesBothGates(a) ==
    /\ ToolVerdict(execute_remediation(a)) # "blocked"
    /\ HttpVerdict(ops_execute_action(a)) # "blocked"

\* C27: no action the system recommends is blocked by its own gate: each
\* action string suggest_actions returns and each action ops_analyze_incident
\* lists gets a verdict other than blocked from execute_remediation and from
\* ops_execute_action, for every symptom text and every severity.
C27_RecommendedActionsPassTheGate ==
    \A op \in {"analyze_incident", "ops_analyze_incident"} :
        Analysed(op) =>
            \A i \in DOMAIN lookupResp[1].result.recommended_actions :
                PassesBothGates(lookupResp[1].result.recommended_actions[i])

\* a CRITICAL incident of the corruption branch was analysed: its list names
\* the database, backups and alerts, and passes both gates
C27_Witness ==
    /\ Analysed("analyze_incident")
    /\ Len(lookupResp[1].result.recommended_actions) = 4
    /\ HasWord(lookupResp[1].result.recommended_actions[1], "database")
    /\ \A i \in 1..4 : PassesBothGates(lookupResp[1].result.recommended_actions[i])


----------------------------------------------------------------------------
(* Claims about the tool server under concurrent calls, checked under      *)
(* SpecLoop.                                                               *)

\* caller w is inside simulate_usage, after its add_usage and before its
\* report
Accumulated(w) == writers[w].pc = "simulate_usage"

\* caller w got the answer of tool name
Returned(w, name) == writers[w].pc = "returned" /\ writers[w].name = name

\* the token count of the simulate_usage call of w
TokensAsked(w) == Get(writers[w].arguments, "tokens", 5000)

\* C21: tool calls run without suspension points between updating and
\* reading the ledger: from the add_usage of a simulate_usage call to its
\* report no step of any call changes the ledger, and the totals it reports
\* are those of the ledger, for any interleaving of concurrent calls.
C21_ReportIsLedgerAfterOwnAddUsage ==
    [][\A w \in Writers :
          Accumulated(w) =>
              /\ tracker' = tracker
              /\ writers'[w] # writers[w] =>
                     /\ writers'[w].pc = "returned"
                     /\ writers'[w].result.total_tokens = tracker.total_tokens
                     /\ writers'[w].result.total_cost = tracker.total_cost
                     /\ writers'[w].result.budget_used
                            = get_budget_status(tracker).percentage]_vars

\* two concurrent simulate_usage calls have returned, the second one
\* reporting the tokens of both
C21_Witness ==
    /\ \A w \in Writers : Returned(w, "simulate_usage")
    /\ TokensAsked("w1") # TokensAsked("w2")
    /\ writers["w1"].result.total_tokens = 28000 + TokensAsked("w1")
    /\ writers["w2"].result.total_tokens
           = 28000 + TokensAsked("w1") + TokensAsked("w2")


\* the exact product of the float a and the small natural k, not rounded
Times(a, k) == [a EXCEPT !.m = BMulSmall(@, k)]

\* spent is more than pct percent of budget_limit, exactly
MoreThanPercent(spent, budget_limit, pct) ==
    FCmp(Times(spent, 100), Times(budget_limit, pct)) > 0

\* the report the ledger calls for
ReportDue(spent, budget_limit) ==
    IF MoreThanPercent(spent, budget_limit, 95) THEN "CRITICAL BUDGET ALERT!"
    ELSE IF MoreThanPercent(spent, budget_limit, 80) THEN "BUDGET WARNING"
    ELSE "Budget Status: Healthy"

\* C23: check_budget_status returns exactly one of three reports chosen
\* from the ledger: critical when spent is more than 95% of budget_limit,
\* warning when it is more than 80% and at most 95%, healthy otherwise; the
\* critical flag of get_budget_status implies its alert flag in every
\* reachable ledger state.
C23_ReportByShareOfBudget ==
    /\ \A w \in Writers :
           Returned(w, "check_budget_status") =>
               writers[w].result.headline
                   = ReportDue(writers[w].result.spent, writers[w].result.budget)
    /\ get_budget_status(tracker).critical => get_budget_status(tracker).alert

\* a check after a usage that took the spending between 80% and 95% of the
\* budget returned the warning
C23_Witness ==
    /\ Returned("w1", "simulate_usage")
    /\ Returned("w2", "check_budget_status")
    /\ writers["w2"].result.headline = "BUDGET WARNING"
    /\ MoreThanPercent(writers["w2"].result.spent, writers["w2"].result.budget, 80)
    /\ ~MoreThanPercent(writers["w2"].result.spent, writers["w2"].result.budget, 95)


\* the orders in which the models of a ledger can be summed
SummingOrders(tr) ==
    { p \in [1..Cardinality(DOMAIN tr.usage_by_model) -> DOMAIN tr.usage_by_model] :
        \A i, j \in DOMAIN p : p[i] = p[j] => i = j }

\* the tokens of the models p[1..n] together
RECURSIVE SumOfTokens(_, _, _)
SumOfTokens(tr, p, n) ==
    IF n = 0 THEN 0
    ELSE SumOfTokens(tr, p, n - 1) + tr.usage_by_model[p[n]].tokens

\* the float sum of the costs of the models p[1..n], added in this order
RECURSIVE SumOfCosts(_, _, _)
SumOfCosts(tr, p, n) ==
    IF n = 0 THEN FZero
    ELSE FAdd(SumOfCosts(tr, p, n - 1), tr.usage_by_model[p[n]].cost)

\* C24: after any sequence of add_usage / simulate_usage calls from the
\* construction of the tracker, total_tokens equals the sum of
\* usage_by_model[m].tokens over all models m and total_cost equals the sum
\* of usage_by_model[m].cost over all models m (summed in some order).
C24_TotalsAreSumsOverModels ==
    \E p \in SummingOrders(tracker) :
        /\ tracker.total_tokens = SumOfTokens(tracker, p, Len(p))
        /\ tracker.total_cost = SumOfCosts(tracker, p, Len(p))


\* 0 <= x <= hi as floats
Within(x, hi) == FCmp(x, FZero) >= 0 /\ FCmp(x, hi) <= 0

\* C25: in every ledger state reachable through the simulate_usage tool
\* with any integer token count, get_budget_status reports a percentage
\* between 0 and 100 and a remaining amount between 0 and budget_limit, and
\* total_tokens and total_cost never decrease.
C25_BudgetStatusInRangeTotalsGrow ==
    [][/\ Within(get_budget_status(tracker').percentage, F100)
       /\ Within(get_budget_status(tracker').remaining, tracker'.budget_limit)
       /\ tracker'.total_tokens >= tracker.total_tokens
       /\ FCmp(tracker'.total_cost, tracker.total_cost) >= 0]_vars


\* the step records exactly one usage event of t tokens for model m
OneUsageEvent(m, t) ==
    /\ tracker'.total_tokens = tracker.total_tokens + t
    /\ Charges(m, FMul(FFromInt(t), FDiv(PriceOf(tracker, m), F1000)))
    /\ tracker'.usage_by_model[m].tokens = EntryOf(tracker, m).tokens + t
    /\ DOMAIN tracker'.usage_by_model = DOMAIN tracker.usage_by_model \cup {m}
    /\ \A k \in DOMAIN tracker.usage_by_model \ {m} :
           tracker'.usage_by_model[k] = tracker.usage_by_model[k]
    /\ tracker'.budget_limit = tracker.budget_limit
    /\ tracker'.model_pricing = tracker.model_pricing

\* C28: call_tool rejects every tool name outside get_token_usage,
\* check_budget_status, recommend_model_switch, simulate_usage with a
\* ValueError and leaves the ledger unchanged; of the accepted names only
\* simulate_usage changes the ledger, and one call changes it by exactly one
\* usage event.
C28_UnknownToolsRaiseOnlyUsageWrites ==
    [][\A w \in Writers :
          (writers[w].pc = "call_tool" /\ writers'[w] # writers[w]) =>
              /\ writers[w].name \notin ToolNames =>
                     /\ writers'[w].pc = "raised"
                     /\ writers'[w].error = "ValueError"
                     /\ tracker' = tracker
              /\ writers[w].name \in ToolNames \ {"simulate_usage"} =>
                     /\ writers'[w].pc = "returned"
                     /\ tracker' = tracker
              /\ writers[w].name = "simulate_usage" =>
                     /\ writers'[w].pc = "simulate_usage"
                     /\ OneUsageEvent(Get(writers[w].arguments, "model", "gpt-4"),
                                      TokensAsked(w))]_vars

\* one caller was turned away for a tool name in another case, the other
\* one recorded its usage event
C28_Witness ==
    /\ writers["w1"].pc = "raised"
    /\ writers["w1"].name = "Simulate_Usage"
    /\ Returned("w2", "simulate_usage")
    /\ tracker.total_tokens = CostTracker.total_tokens + TokensAsked("w2")


\* no call has reached the ledger yet
NothingDispatched == \A w \in Writers : writers[w].pc \in {"idle", "call_tool"}

\* C29: the ledger the tool server builds at start-up by replaying its three
\* demo usage events through add_usage equals the ledger the dashboard's
\* CostTracker writes down: total_tokens 28000, total_cost 0.4587 and the
\* same tokens and costs per model (0.45, 0.0075, 0.0012).
C29_DemoLedgerIsDashboardLedger ==
    NothingDispatched =>
        /\ tracker.total_tokens = dashboard_CostTracker.total_tokens
        /\ tracker.total_cost = dashboard_CostTracker.total_cost
        /\ tracker.usage_by_model = dashboard_CostTracker.usage_by_model
        /\ tracker.budget_limit = dashboard_CostTracker.budget_limit

=============================================================================
